---- MODULE Spec2Model ----
(***************************************************************************)
(* Model of the Binance futures trading bot: src/bot.py (BasicBot, the     *)
(* order dispatcher) and src/cli.py (validators, interactive menu, flag    *)
(* mode of main).                                                          *)
(*                                                                         *)
(* Strings that the code transforms (strip, upper, float, int) are tuples  *)
(* of one-character strings, so that the transformations are computed.     *)
(* Floats are records [k, n]: k = "fin" with the integer n, k = "inf" with *)
(* the sign n, k = "nan"; None is k = "none".                              *)
(* Everything a run does that can be observed (client calls, log lines,    *)
(* prints, dispatcher calls and their return or raise) is an event, kept   *)
(* in program order.                                                       *)
(***************************************************************************)
EXTENDS Integers, Sequences, FiniteSets, TLC

VARIABLES pc, args, testnet_given, bot, typed, initEvents, opEvents, exitCode, nOps

vars == <<pc, args, testnet_given, bot, typed, initEvents, opEvents, exitCode, nOps>>

(* ------------------------------ bounds -------------------------------- *)
\* Menu iterations (interactive) or direct dispatcher calls (library use)
\* followed in one run.
MaxOps == 2

(* ------------------------------ strings ------------------------------- *)
LowerChars == <<"a","b","c","d","e","f","g","h","i","j","k","l","m",
                "n","o","p","q","r","s","t","u","v","w","x","y","z">>
UpperChars == <<"A","B","C","D","E","F","G","H","I","J","K","L","M",
                "N","O","P","Q","R","S","T","U","V","W","X","Y","Z">>
DigitChars == <<"0","1","2","3","4","5","6","7","8","9">>

\* The letter tables of str.upper() and str.lower().
ToUpper == [c \in {LowerChars[i] : i \in DOMAIN LowerChars} |->
               UpperChars[CHOOSE i \in DOMAIN LowerChars : LowerChars[i] = c]]
ToLower == [c \in {UpperChars[i] : i \in DOMAIN UpperChars} |->
               LowerChars[CHOOSE i \in DOMAIN UpperChars : UpperChars[i] = c]]

UpperChar(c) == IF c \in DOMAIN ToUpper THEN ToUpper[c] ELSE c

LowerChar(c) == IF c \in DOMAIN ToLower THEN ToLower[c] ELSE c

\* str.upper()
Upper(s) == [i \in DOMAIN s |-> UpperChar(s[i])]

\* str.lower()
Lower(s) == [i \in DOMAIN s |-> LowerChar(s[i])]

RECURSIVE LStrip(_)
LStrip(s) == IF s # <<>> /\ Head(s) = " " THEN LStrip(Tail(s)) ELSE s

RECURSIVE RStrip(_)
RStrip(s) ==
    IF s # <<>> /\ s[Len(s)] = " " THEN RStrip(SubSeq(s, 1, Len(s) - 1)) ELSE s

\* str.strip()
Strip(s) == RStrip(LStrip(s))

(* ------------------------------ numbers ------------------------------- *)
None == [k |-> "none", n |-> 0]
Fin(i) == [k |-> "fin", n |-> i]
NaN == [k |-> "nan", n |-> 0]
Inf(sign) == [k |-> "inf", n |-> sign]

IsDigits(s) == s # <<>> /\ \A i \in DOMAIN s : \E d \in DOMAIN DigitChars : DigitChars[d] = s[i]

DigitOf(c) == (CHOOSE d \in DOMAIN DigitChars : DigitChars[d] = c) - 1

RECURSIVE DigitsVal(_)
DigitsVal(s) ==
    IF s = <<>> THEN 0 ELSE 10 * DigitsVal(SubSeq(s, 1, Len(s) - 1)) + DigitOf(s[Len(s)])

SignOf(t) == IF t # <<>> /\ Head(t) = "-" THEN -1 ELSE 1
Unsigned(t) == IF t # <<>> /\ Head(t) \in {"-", "+"} THEN Tail(t) ELSE t

\* Python float(str), on integer literals and the words nan, inf, infinity:
\* surrounding blanks are dropped, one sign is allowed, the words are matched
\* case-insensitively; anything else raises ValueError("could not convert ...").
ParseFloat(s) ==
    LET t == Strip(s)
        body == Unsigned(t)
    IN  IF IsDigits(body) THEN [ok |-> TRUE, val |-> Fin(SignOf(t) * DigitsVal(body))]
        ELSE IF Lower(body) = <<"n","a","n">> THEN [ok |-> TRUE, val |-> NaN]
        ELSE IF Lower(body) \in {<<"i","n","f">>, <<"i","n","f","i","n","i","t","y">>}
             THEN [ok |-> TRUE, val |-> Inf(SignOf(t))]
        ELSE [ok |-> FALSE, val |-> None]

\* Python int(str): blanks dropped, one sign, decimal digits; else ValueError.
ParseInt(s) ==
    LET t == Strip(s)
        body == Unsigned(t)
    IN  IF IsDigits(body) THEN [ok |-> TRUE, val |-> Fin(SignOf(t) * DigitsVal(body))]
        ELSE [ok |-> FALSE, val |-> None]

\* val <= 0 on floats: every comparison with nan is False.
LeqZero(v) == \/ v.k = "fin" /\ v.n <= 0
              \/ v.k = "inf" /\ v.n < 0

\* val > 0 on floats.
GtZero(v) == \/ v.k = "fin" /\ v.n > 0
             \/ v.k = "inf" /\ v.n > 0

\* Truth value of an Optional[float] / Optional[int]: None and 0 are falsy,
\* every other number (negative, nan, inf) is truthy.
TruthyNum(v) == ~(v.k = "none" \/ (v.k = "fin" /\ v.n = 0))

\* Truth value of an Optional[str]: None and "" are falsy.
NoStr == <<"\\None">>
TruthyStr(s) == s # NoStr /\ s # <<>>

(* ----------------------------- validators ----------------------------- *)
BUY == <<"B","U","Y">>
SELL == <<"S","E","L","L">>

ValueError(text, field, got) ==
    [cls |-> "ValueError", id |-> 0, text |-> text, field |-> field, got |-> got]

\* validate_side without the upper-casing: only the exact words pass.
validate_side_exact(side) ==
    IF side \notin {BUY, SELL}
    THEN [ok |-> FALSE, val |-> ValueError("Side must be 'BUY' or 'SELL'", "Side", side)]
    ELSE [ok |-> TRUE, val |-> side]

\* cli.validate_side
validate_side(side) ==
    LET side_upper == Upper(side)
    IN  IF side_upper \notin {BUY, SELL}
        THEN [ok |-> FALSE, val |-> ValueError("Side must be 'BUY' or 'SELL'", "Side", side)]
        ELSE [ok |-> TRUE, val |-> side_upper]

\* cli.validate_positive_float
validate_positive_float(value, name) ==
    LET f == ParseFloat(value)
    IN  IF ~f.ok
        THEN [ok |-> FALSE, val |-> ValueError("must be a valid number", name, value)]
        ELSE IF LeqZero(f.val)
        THEN [ok |-> FALSE, val |-> ValueError("must be positive", name, value)]
        ELSE [ok |-> TRUE, val |-> f.val]

(* ------------------------------- events ------------------------------- *)
\* t: "new" (the exchange client is constructed), "client" (a method of the
\* exchange client is called), "answer" / "error" (what the exchange client
\* returned / raised), "log" (name: info, request, response, error),
\* "print", "call" / "return" / "raise" (a BasicBot method is entered / left),
\* "check" / "accept" / "reject" (a validator is entered / left).
Ev(t, name, arg) == [t |-> t, name |-> name, arg |-> arg]

Text(s) == [text |-> s]

\* What the exchange client did with a call: "answer" with the response it
\* returned, or "error" with the exception it raised.
Answer(name, outcome) == <<Ev(IF outcome.ok THEN "answer" ELSE "error", name, outcome.val)>>

Select(seq, t) == SelectSeq(seq, LAMBDA e : e.t = t)
SelectNamed(seq, t, name) == SelectSeq(seq, LAMBDA e : e.t = t /\ e.name = name)

(* ------------------------- the exchange client ------------------------ *)
Err(cls, id, text) == [cls |-> cls, id |-> id, text |-> text, field |-> "", got |-> <<>>]

ConnectionError == Err("ConnectionError", 3, "endpoint unreachable")

\* What the external client can raise: the two python-binance exception
\* classes bot.py imports, and any other Exception.
ClientErrors ==
    { Err("BinanceAPIException", 1, "insufficient margin"),
      Err("BinanceRequestException", 2, "invalid response"),
      ConnectionError }

OrderResponse == [orderId |-> 7, status |-> "NEW"]
AccountInfo == [totalWalletBalance |-> 100, availableBalance |-> 90, totalUnrealizedProfit |-> 0]
ExchangeInfo == [symbols |-> {<<"B","T","C">>}]

Ok(v) == [ok |-> TRUE, val |-> v]
Raise(e) == [ok |-> FALSE, val |-> e]

Outcomes(resp) == {Ok(resp)} \cup {Raise(e) : e \in ClientErrors}

\* What the cli paths are followed with: the response or one error (cli.py
\* treats every Exception alike).
CliOutcomes(resp) == {Ok(resp), Raise(Err("BinanceAPIException", 1, "insufficient margin"))}

\* Constructing the bot: the exchange client is created and the liveness
\* call answers, or the liveness call raises, or the creation raises.
Constructions ==
    { [created |-> Ok(Text("client")), outcome |-> Ok(AccountInfo)],
      [created |-> Ok(Text("client")),
       outcome |-> Raise(Err("BinanceAPIException", 1, "invalid API key"))],
      [created |-> Raise(ConnectionError), outcome |-> Ok(AccountInfo)] }

(* ------------------------------ BasicBot ------------------------------ *)
NoBot == [api_key |-> "", api_secret |-> "", testnet |-> FALSE, client |-> "none"]

\* Variant of _test_connection that tries the liveness call a second time
\* when the first one raises.
test_connection_retry(testnet, outcome) ==
    LET method == IF testnet THEN "futures_account" ELSE "get_account"
        head == <<Ev("client", method, Text("liveness"))>> \o Answer(method, outcome)
    IN  IF outcome.ok
        THEN [events |-> head \o <<Ev("log", "info", Text("Successfully connected"))>>,
              ret |-> outcome]
        ELSE [events |-> head \o head \o <<Ev("log", "error", outcome.val)>>, ret |-> outcome]

\* BasicBot._test_connection
test_connection(testnet, outcome) ==
    LET method == IF testnet THEN "futures_account" ELSE "get_account"
        head == <<Ev("client", method, Text("liveness"))>> \o Answer(method, outcome)
    IN  IF outcome.ok
        THEN [events |-> head \o
                  (IF testnet
                   THEN <<Ev("log", "info", Text("Successfully connected to Binance Futures Testnet")),
                          Ev("log", "info", Text("Account balance"))>>
                   ELSE <<Ev("log", "info", Text("Successfully connected to Binance"))>>),
              ret |-> outcome]
        ELSE [events |-> head \o <<Ev("log", "error", outcome.val)>>, ret |-> outcome]

\* BasicBot.__init__: created is the outcome of constructing the exchange
\* client, outcome the one of the liveness call.
BasicBot(api_key, api_secret, testnet, created, outcome) ==
    LET head == <<Ev("new", "Client", [testnet |-> testnet])>> \o Answer("Client", created)
        made == head \o
                (IF testnet
                 THEN <<Ev("log", "info", Text("Initialized Binance Futures Testnet client")),
                        Ev("log", "info", Text("Using Futures URL"))>>
                 ELSE <<Ev("log", "info", Text("Initialized Binance client (mainnet)"))>>)
        tc == test_connection(testnet, outcome)
    IN  IF ~created.ok
        THEN [events |-> head \o <<Ev("log", "error", created.val),
                                   Ev("raise", "BasicBot", created.val)>>,
              ret |-> created, bot |-> NoBot]
        ELSE IF ~tc.ret.ok
        THEN [events |-> made \o tc.events \o <<Ev("log", "error", tc.ret.val),
                                                Ev("raise", "BasicBot", tc.ret.val)>>,
              ret |-> tc.ret, bot |-> NoBot]
        ELSE [events |-> made \o tc.events,
              ret |-> Ok(Text("bot")),
              bot |-> [api_key |-> api_key, api_secret |-> api_secret,
                       testnet |-> testnet, client |-> "client"]]

\* Variant of place_market_order that sends the side as it was given.
place_market_order_side_as_given(symbol, side, quantity, outcome) ==
    LET params == [symbol |-> symbol, side |-> side, type |-> "MARKET",
                   quantity |-> quantity]
        head == <<Ev("call", "place_market_order",
                     [symbol |-> symbol, side |-> side, quantity |-> quantity]),
                  Ev("log", "info", Text("Placing market order")),
                  Ev("log", "request", params),
                  Ev("client", "futures_create_order", params)>>
                \o Answer("futures_create_order", outcome)
    IN  IF outcome.ok
        THEN [events |-> head \o <<Ev("log", "response", outcome.val),
                                   Ev("log", "info", Text("Market order placed successfully")),
                                   Ev("return", "place_market_order", outcome.val)>>,
              ret |-> outcome]
        ELSE [events |-> head \o <<Ev("log", "error", outcome.val),
                                   Ev("raise", "place_market_order", outcome.val)>>,
              ret |-> outcome]

\* BasicBot.place_market_order
place_market_order(symbol, side, quantity, outcome) ==
    LET params == [symbol |-> symbol, side |-> Upper(side), type |-> "MARKET",
                   quantity |-> quantity]
        head == <<Ev("call", "place_market_order",
                     [symbol |-> symbol, side |-> side, quantity |-> quantity]),
                  Ev("log", "info", Text("Placing market order")),
                  Ev("log", "request", params),
                  Ev("client", "futures_create_order", params)>>
                \o Answer("futures_create_order", outcome)
        failed == [events |-> head \o <<Ev("log", "error", outcome.val),
                                        Ev("raise", "place_market_order", outcome.val)>>,
                   ret |-> outcome]
    IN  IF outcome.ok
        THEN [events |-> head \o <<Ev("log", "response", outcome.val),
                                   Ev("log", "info", Text("Market order placed successfully")),
                                   Ev("return", "place_market_order", outcome.val)>>,
              ret |-> outcome]
        ELSE CASE outcome.val.cls = "BinanceAPIException" -> failed
               [] outcome.val.cls = "BinanceRequestException" -> failed
               [] OTHER -> failed

\* Variant of place_limit_order that sends the order a second time when the
\* exchange client raises.
place_limit_order_retry(symbol, side, quantity, price, outcome) ==
    LET params == [symbol |-> symbol, side |-> Upper(side), type |-> "LIMIT",
                   quantity |-> quantity, price |-> price, timeInForce |-> "GTC"]
        head == <<Ev("call", "place_limit_order",
                     [symbol |-> symbol, side |-> side, quantity |-> quantity,
                      price |-> price]),
                  Ev("log", "info", Text("Placing limit order")),
                  Ev("log", "request", params)>>
        send == <<Ev("client", "futures_create_order", params)>>
                \o Answer("futures_create_order", outcome)
    IN  IF outcome.ok
        THEN [events |-> head \o send \o
                         <<Ev("log", "response", outcome.val),
                           Ev("log", "info", Text("Limit order placed successfully")),
                           Ev("return", "place_limit_order", outcome.val)>>,
              ret |-> outcome]
        ELSE [events |-> head \o send \o send \o
                         <<Ev("log", "error", outcome.val),
                           Ev("raise", "place_limit_order", outcome.val)>>,
              ret |-> outcome]

\* Variant of place_limit_order whose payload also carries a stopPrice.
place_limit_order_with_stop(symbol, side, quantity, price, outcome) ==
    LET params == [symbol |-> symbol, side |-> Upper(side), type |-> "LIMIT",
                   quantity |-> quantity, price |-> price, stopPrice |-> price,
                   timeInForce |-> "GTC"]
        head == <<Ev("call", "place_limit_order",
                     [symbol |-> symbol, side |-> side, quantity |-> quantity,
                      price |-> price]),
                  Ev("log", "info", Text("Placing limit order")),
                  Ev("log", "request", params),
                  Ev("client", "futures_create_order", params)>>
                \o Answer("futures_create_order", outcome)
    IN  IF outcome.ok
        THEN [events |-> head \o <<Ev("log", "response", outcome.val),
                                   Ev("log", "info", Text("Limit order placed successfully")),
                                   Ev("return", "place_limit_order", outcome.val)>>,
              ret |-> outcome]
        ELSE [events |-> head \o <<Ev("log", "error", outcome.val),
                                   Ev("raise", "place_limit_order", outcome.val)>>,
              ret |-> outcome]

\* BasicBot.place_limit_order (time_in_force is left at its default by every caller)
place_limit_order(symbol, side, quantity, price, outcome) ==
    LET params == [symbol |-> symbol, side |-> Upper(side), type |-> "LIMIT",
                   quantity |-> quantity, price |-> price, timeInForce |-> "GTC"]
        head == <<Ev("call", "place_limit_order",
                     [symbol |-> symbol, side |-> side, quantity |-> quantity,
                      price |-> price]),
                  Ev("log", "info", Text("Placing limit order")),
                  Ev("log", "request", params),
                  Ev("client", "futures_create_order", params)>>
                \o Answer("futures_create_order", outcome)
        failed == [events |-> head \o <<Ev("log", "error", outcome.val),
                                        Ev("raise", "place_limit_order", outcome.val)>>,
                   ret |-> outcome]
    IN  IF outcome.ok
        THEN [events |-> head \o <<Ev("log", "response", outcome.val),
                                   Ev("log", "info", Text("Limit order placed successfully")),
                                   Ev("return", "place_limit_order", outcome.val)>>,
              ret |-> outcome]
        ELSE CASE outcome.val.cls = "BinanceAPIException" -> failed
               [] outcome.val.cls = "BinanceRequestException" -> failed
               [] OTHER -> failed

\* BasicBot.place_stop_limit_order
place_stop_limit_order(symbol, side, quantity, price, stop_price, outcome) ==
    LET params == [symbol |-> symbol, side |-> Upper(side), type |-> "STOP",
                   quantity |-> quantity, price |-> price, stopPrice |-> stop_price,
                   timeInForce |-> "GTC"]
        head == <<Ev("call", "place_stop_limit_order",
                     [symbol |-> symbol, side |-> side, quantity |-> quantity,
                      price |-> price, stop_price |-> stop_price]),
                  Ev("log", "info", Text("Placing stop-limit order")),
                  Ev("log", "request", params),
                  Ev("client", "futures_create_order", params)>>
                \o Answer("futures_create_order", outcome)
        failed == [events |-> head \o <<Ev("log", "error", outcome.val),
                                        Ev("raise", "place_stop_limit_order", outcome.val)>>,
                   ret |-> outcome]
    IN  IF outcome.ok
        THEN [events |-> head \o <<Ev("log", "response", outcome.val),
                                   Ev("log", "info", Text("Stop-limit order placed successfully")),
                                   Ev("return", "place_stop_limit_order", outcome.val)>>,
              ret |-> outcome]
        ELSE CASE outcome.val.cls = "BinanceAPIException" -> failed
               [] outcome.val.cls = "BinanceRequestException" -> failed
               [] OTHER -> failed

\* BasicBot.get_order_status
get_order_status(symbol, order_id, outcome) ==
    LET head == <<Ev("call", "get_order_status", [symbol |-> symbol, order_id |-> order_id]),
                  Ev("client", "futures_get_order", [symbol |-> symbol, orderId |-> order_id])>>
                \o Answer("futures_get_order", outcome)
    IN  IF outcome.ok
        THEN [events |-> head \o <<Ev("log", "info", Text("Order status")),
                                   Ev("return", "get_order_status", outcome.val)>>,
              ret |-> outcome]
        ELSE [events |-> head \o <<Ev("log", "error", outcome.val),
                                   Ev("raise", "get_order_status", outcome.val)>>,
              ret |-> outcome]

\* BasicBot.cancel_order
cancel_order(symbol, order_id, outcome) ==
    LET head == <<Ev("call", "cancel_order", [symbol |-> symbol, order_id |-> order_id]),
                  Ev("log", "info", Text("Cancelling order")),
                  Ev("client", "futures_cancel_order", [symbol |-> symbol, orderId |-> order_id])>>
                \o Answer("futures_cancel_order", outcome)
    IN  IF outcome.ok
        THEN [events |-> head \o <<Ev("log", "response", outcome.val),
                                   Ev("log", "info", Text("Order cancelled successfully")),
                                   Ev("return", "cancel_order", outcome.val)>>,
              ret |-> outcome]
        ELSE [events |-> head \o <<Ev("log", "error", outcome.val),
                                   Ev("raise", "cancel_order", outcome.val)>>,
              ret |-> outcome]

\* BasicBot.get_account_balance
get_account_balance(outcome) ==
    LET head == <<Ev("call", "get_account_balance", Text("")),
                  Ev("client", "futures_account", Text(""))>>
                \o Answer("futures_account", outcome)
        balance == [total_wallet_balance |-> outcome.val.totalWalletBalance,
                    available_balance |-> outcome.val.availableBalance,
                    total_unrealized_pnl |-> outcome.val.totalUnrealizedProfit]
    IN  IF outcome.ok
        THEN [events |-> head \o <<Ev("return", "get_account_balance", balance)>>,
              ret |-> Ok(balance)]
        ELSE [events |-> head \o <<Ev("log", "error", outcome.val),
                                   Ev("raise", "get_account_balance", outcome.val)>>,
              ret |-> outcome]

\* BasicBot.get_symbol_info
get_symbol_info(symbol, outcome) ==
    LET head == <<Ev("call", "get_symbol_info", [symbol |-> symbol]),
                  Ev("client", "futures_exchange_info", Text(""))>>
                \o Answer("futures_exchange_info", outcome)
        notFound == ValueError("Symbol not found", "symbol", symbol)
    IN  IF outcome.ok
        THEN IF symbol \in outcome.val.symbols
             THEN [events |-> head \o <<Ev("return", "get_symbol_info", [symbol |-> symbol])>>,
                   ret |-> Ok([symbol |-> symbol])]
             ELSE [events |-> head \o <<Ev("log", "error", notFound),
                                        Ev("raise", "get_symbol_info", notFound)>>,
                   ret |-> Raise(notFound)]
        ELSE [events |-> head \o <<Ev("log", "error", outcome.val),
                                   Ev("raise", "get_symbol_info", outcome.val)>>,
              ret |-> outcome]

(* ------------------------ cli: argument parsing ----------------------- *)
\* Tokens given on the command line; NoStr where the flag is absent.
T_btc == <<"b","t","c">>
T_BTC == <<"B","T","C">>

ArgvSymbols == {NoStr, T_btc}
ArgvSides == {NoStr, BUY, <<"b","u","y">>}
ArgvQuantities == {NoStr, <<"1">>, <<"0">>, <<"-","1">>}
ArgvPrices == {NoStr, <<"2">>, <<"-","2">>}
ArgvStopPrices == {NoStr, <<"3">>}
ArgvOrderIds == {NoStr, <<"7">>}
ArgvOrderTypes == {"none", "market", "limit", "stop-limit"}

\* Command lines of the flag mode: every combination of the operation flags
\* with every combination of the field tokens.
FlagArgv ==
    [interactive : {FALSE}, balance : BOOLEAN, order_status : BOOLEAN,
     cancel_order : BOOLEAN, order_type : ArgvOrderTypes, symbol : ArgvSymbols,
     side : ArgvSides, quantity : ArgvQuantities, price : ArgvPrices,
     stop_price : ArgvStopPrices, order_id : ArgvOrderIds,
     testnet : BOOLEAN, mainnet : BOOLEAN]

\* Command lines with --interactive: the fields are typed at the prompts,
\* the environment is the default one.
InteractiveArgv ==
    [interactive : {TRUE}, balance : BOOLEAN, order_status : {FALSE},
     cancel_order : {FALSE}, order_type : {"none"}, symbol : {NoStr},
     side : {NoStr}, quantity : {NoStr}, price : {NoStr},
     stop_price : {NoStr}, order_id : {NoStr},
     testnet : {FALSE}, mainnet : {FALSE}]

ArgvSet == FlagArgv \cup InteractiveArgv

NoArgs ==
    [interactive |-> FALSE, balance |-> FALSE, order_status |-> FALSE,
     cancel_order |-> FALSE, order_type |-> "none", symbol |-> NoStr,
     side |-> NoStr, quantity |-> None, price |-> None, stop_price |-> None,
     order_id |-> None, testnet |-> TRUE, mainnet |-> FALSE]

\* argparse action='store_true': True when the flag is on the command line,
\* the default otherwise.
store_true(given, default) == IF given THEN TRUE ELSE default

\* argparse type=float / type=int on an optional flag
OptFloat(tok) == IF tok = NoStr THEN [ok |-> TRUE, val |-> None] ELSE ParseFloat(tok)
OptInt(tok) == IF tok = NoStr THEN [ok |-> TRUE, val |-> None] ELSE ParseInt(tok)

\* parser.parse_args(): choices are compared exactly, type= conversions are
\* applied; a failure ends the process with status 2.
parse_args(argv) ==
    IF /\ argv.side \in {NoStr, BUY, SELL}
       /\ OptFloat(argv.quantity).ok /\ OptFloat(argv.price).ok
       /\ OptFloat(argv.stop_price).ok /\ OptInt(argv.order_id).ok
    THEN [ok |-> TRUE,
          val |-> [interactive |-> argv.interactive, balance |-> argv.balance,
                   order_status |-> argv.order_status,
                   cancel_order |-> argv.cancel_order,
                   order_type |-> argv.order_type, symbol |-> argv.symbol,
                   side |-> argv.side,
                   quantity |-> OptFloat(argv.quantity).val,
                   price |-> OptFloat(argv.price).val,
                   stop_price |-> OptFloat(argv.stop_price).val,
                   order_id |-> OptInt(argv.order_id).val,
                   testnet |-> store_true(argv.testnet, TRUE),
                   mainnet |-> store_true(argv.mainnet, FALSE)]]
    ELSE [ok |-> FALSE, val |-> NoArgs]

\* The environment chosen from --testnet alone.
use_testnet_ignoring_mainnet(a) == a.testnet

\* main: use_testnet = args.testnet and not args.mainnet
use_testnet(a) == a.testnet /\ ~a.mainnet

\* The chain with the order placement tested before the other operations.
Selected_order_first(a) ==
    IF a.interactive THEN "interactive"
    ELSE IF a.order_type # "none" THEN "order"
    ELSE IF a.balance THEN "balance"
    ELSE IF a.order_status THEN "order_status"
    ELSE IF a.cancel_order THEN "cancel_order"
    ELSE "none"

\* main: the if / elif chain that selects the operation
Selected(a) ==
    IF a.interactive THEN "interactive"
    ELSE IF a.balance THEN "balance"
    ELSE IF a.order_status THEN "order_status"
    ELSE IF a.cancel_order THEN "cancel_order"
    ELSE IF a.order_type # "none" THEN "order"
    ELSE "none"

(* ------------------------- cli: presentation -------------------------- *)
\* cli.print_order_details
print_order_details(response) == <<Ev("print", "ORDER DETAILS", response)>>

\* cli.print_account_info: the failure is printed and swallowed
print_account_info(outcome) ==
    LET r == get_account_balance(outcome)
    IN  IF r.ret.ok
        THEN r.events \o <<Ev("print", "ACCOUNT BALANCE", r.ret.val)>>
        ELSE r.events \o <<Ev("print", "Error getting account balance:", r.ret.val)>>

(* --------------------------- cli: flag mode --------------------------- *)
\* What a branch of main leaves: its events and the exit status.
Done(events, status) == [events |-> events, exit |-> status]

\* main, branch --balance
flag_balance(a, outcome) == Done(print_account_info(outcome), 0)

\* Variant of the branch --order-status that does not look for --symbol
\* and --order-id.
flag_order_status_unchecked(a, outcome) ==
    LET r == get_order_status(a.symbol, a.order_id, outcome)
    IN  IF r.ret.ok
        THEN Done(r.events \o print_order_details(r.ret.val), 0)
        ELSE Done(r.events \o <<Ev("print", "Error:", r.ret.val)>>, 1)

\* main, branch --order-status
flag_order_status(a, outcome) ==
    IF ~TruthyStr(a.symbol) \/ ~TruthyNum(a.order_id)
    THEN Done(<<Ev("print", "Error: --symbol and --order-id are required for --order-status",
                   Text(""))>>, 1)
    ELSE LET r == get_order_status(a.symbol, a.order_id, outcome)
         IN  IF r.ret.ok
             THEN Done(r.events \o print_order_details(r.ret.val), 0)
             ELSE Done(r.events \o <<Ev("print", "Error:", r.ret.val)>>, 1)

\* main, branch --cancel-order
flag_cancel_order(a, outcome) ==
    IF ~TruthyStr(a.symbol) \/ ~TruthyNum(a.order_id)
    THEN Done(<<Ev("print", "Error: --symbol and --order-id are required for --cancel-order",
                   Text(""))>>, 1)
    ELSE LET r == cancel_order(a.symbol, a.order_id, outcome)
         IN  IF r.ret.ok
             THEN Done(r.events \o <<Ev("print", "Order cancelled successfully", Text(""))>>, 0)
             ELSE Done(r.events \o <<Ev("print", "Error:", r.ret.val)>>, 1)

\* main, branch --order-type, after the order was sent
flag_order_sent(r) ==
    IF r.ret.ok
    THEN Done(r.events \o print_order_details(r.ret.val), 0)
    ELSE Done(r.events \o <<Ev("print", "Error placing order:", r.ret.val)>>, 1)

\* Variant of flag_place_order that sends limit and stop-limit orders
\* without looking at --price and --stop-price.
flag_place_order_unchecked(a, outcome) ==
    IF ~TruthyStr(a.symbol) \/ ~TruthyStr(a.side) \/ ~TruthyNum(a.quantity)
    THEN Done(<<Ev("print", "Error: --symbol, --side, and --quantity are required for placing orders",
                   Text(""))>>, 1)
    ELSE IF a.order_type = "market"
    THEN flag_order_sent(place_market_order(a.symbol, a.side, a.quantity, outcome))
    ELSE IF a.order_type = "limit"
    THEN flag_order_sent(place_limit_order(a.symbol, a.side, a.quantity, a.price, outcome))
    ELSE flag_order_sent(place_stop_limit_order(a.symbol, a.side, a.quantity,
                                                a.price, a.stop_price, outcome))

\* main, branch --order-type
flag_place_order(a, outcome) ==
    IF ~TruthyStr(a.symbol) \/ ~TruthyStr(a.side) \/ ~TruthyNum(a.quantity)
    THEN Done(<<Ev("print", "Error: --symbol, --side, and --quantity are required for placing orders",
                   Text(""))>>, 1)
    ELSE IF a.order_type = "market"
    THEN flag_order_sent(place_market_order(a.symbol, a.side, a.quantity, outcome))
    ELSE IF a.order_type = "limit"
    THEN IF ~TruthyNum(a.price)
         THEN Done(<<Ev("print", "Error: --price is required for limit orders", Text(""))>>, 1)
         ELSE flag_order_sent(place_limit_order(a.symbol, a.side, a.quantity, a.price, outcome))
    ELSE IF ~TruthyNum(a.price) \/ ~TruthyNum(a.stop_price)
         THEN Done(<<Ev("print", "Error: --price and --stop-price are required for stop-limit orders",
                        Text(""))>>, 1)
         ELSE flag_order_sent(place_stop_limit_order(a.symbol, a.side, a.quantity,
                                                     a.price, a.stop_price, outcome))

\* main, the final else
flag_none(a) ==
    Done(<<Ev("print", "No operation specified", Text("")),
           Ev("print", "help", Text(""))>>, 1)

(* ------------------------ cli: interactive mode ----------------------- *)
\* What was typed at the prompts of one menu iteration; NoStr where the
\* prompt was not reached.
NoTyped ==
    [menu |-> NoStr, symbol |-> NoStr, order_type |-> NoStr, side |-> NoStr,
     quantity |-> NoStr, price |-> NoStr, stop_price |-> NoStr, order_id |-> NoStr]

TypedSymbols == {<<>>, T_btc, T_BTC, <<" ","B","T","C"," ">>}
TypedChoices == {<<"1">>, <<"2">>, <<"3">>, <<"9">>}
TypedSides == {<<"b","u","y">>, SELL, <<"h","o","l","d">>}
TypedQuantities == {<<"1">>, <<"0">>, <<"a","b","c">>}
TypedPrices == {<<"2">>, <<>>, <<"-","2">>}
TypedStopPrices == {<<"3">>, <<>>}
TypedOrderIds == {<<"7">>, <<"x">>, <<>>}

\* place_order_interactive: order_type_map.get(order_type_choice)
order_type_map(choice) ==
    IF choice = <<"1">> THEN "MARKET"
    ELSE IF choice = <<"2">> THEN "LIMIT"
    ELSE IF choice = <<"3">> THEN "STOP-LIMIT"
    ELSE "none"

\* place_order_interactive, after the order was sent: a raise is caught by
\* the function's own except Exception
interactive_order_sent(r, t) ==
    IF r.ret.ok
    THEN [events |-> r.events \o print_order_details(r.ret.val), typed |-> t]
    ELSE [events |-> r.events \o <<Ev("print", "Error placing order:", r.ret.val)>>,
          typed |-> t]

\* place_order_interactive: inp holds what the user types at each prompt
place_order_interactive(inp, outcome) ==
    LET head == <<Ev("print", "PLACE ORDER", Text(""))>>
        symbol == Upper(Strip(inp.symbol))
        t1 == [NoTyped EXCEPT !.symbol = inp.symbol]
        order_type == order_type_map(Strip(inp.order_type))
        t2 == [t1 EXCEPT !.order_type = inp.order_type]
        side == validate_side(Strip(inp.side))
        t3 == [t2 EXCEPT !.side = inp.side]
        quantity == validate_positive_float(Strip(inp.quantity), "Quantity")
        t4 == [t3 EXCEPT !.quantity = inp.quantity]
        price == validate_positive_float(Strip(inp.price), "Price")
        t5 == [t4 EXCEPT !.price = inp.price]
        stop_price == validate_positive_float(Strip(inp.stop_price), "Stop price")
        t6 == [t5 EXCEPT !.stop_price = inp.stop_price]
        rejected(msg, e, t) == [events |-> head \o <<Ev("print", msg, e)>>, typed |-> t]
        sent(r, t) == LET s == interactive_order_sent(r, t)
                      IN  [events |-> head \o s.events, typed |-> s.typed]
    IN  IF symbol = <<>>
        THEN rejected("Error: Symbol cannot be empty", Text(""), t1)
        ELSE IF order_type = "none"
        THEN rejected("Error: Invalid order type selection", Text(""), t2)
        ELSE IF ~side.ok
        THEN rejected("Error:", side.val, t3)
        ELSE IF ~quantity.ok
        THEN rejected("Error:", quantity.val, t4)
        ELSE IF order_type = "MARKET"
        THEN sent(place_market_order(symbol, side.val, quantity.val, outcome), t4)
        ELSE IF order_type = "LIMIT"
        THEN IF ~price.ok
             THEN rejected("Error:", price.val, t5)
             ELSE sent(place_limit_order(symbol, side.val, quantity.val, price.val, outcome), t5)
        ELSE IF ~price.ok
             THEN rejected("Error:", price.val, t6)
             ELSE IF ~stop_price.ok
             THEN rejected("Error:", stop_price.val, t6)
             ELSE sent(place_stop_limit_order(symbol, side.val, quantity.val,
                                              price.val, stop_price.val, outcome), t6)

\* The inputs of place_order_interactive, with NoStr at the prompts that the
\* earlier answers keep from being asked.
PlaceInputs ==
    { inp \in [menu : {NoStr}, symbol : TypedSymbols, order_type : TypedChoices \cup {NoStr},
               side : TypedSides \cup {NoStr}, quantity : TypedQuantities \cup {NoStr},
               price : TypedPrices \cup {NoStr}, stop_price : TypedStopPrices \cup {NoStr},
               order_id : {NoStr}] :
        place_order_interactive(inp, Ok(OrderResponse)).typed = inp }

\* main, menu option 3: int() is outside the try, its ValueError reaches
\* main's except Exception, which prints it and exits with status 1
menu_order_status(symbol_in, order_id_in, outcome) ==
    LET symbol == Upper(Strip(symbol_in))
        order_id == ParseInt(Strip(order_id_in))
        r == get_order_status(symbol, order_id.val, outcome)
    IN  IF ~order_id.ok
        THEN [events |-> <<Ev("print", "Error:",
                              ValueError("invalid literal for int()", "order_id", order_id_in))>>,
              exit |-> 1]
        ELSE IF r.ret.ok
        THEN [events |-> r.events \o print_order_details(r.ret.val), exit |-> -1]
        ELSE [events |-> r.events \o <<Ev("print", "Error:", r.ret.val)>>, exit |-> -1]

\* main, menu option 4
menu_cancel_order(symbol_in, order_id_in, outcome) ==
    LET symbol == Upper(Strip(symbol_in))
        order_id == ParseInt(Strip(order_id_in))
        r == cancel_order(symbol, order_id.val, outcome)
    IN  IF ~order_id.ok
        THEN [events |-> <<Ev("print", "Error:",
                              ValueError("invalid literal for int()", "order_id", order_id_in))>>,
              exit |-> 1]
        ELSE IF r.ret.ok
        THEN [events |-> r.events \o <<Ev("print", "Order cancelled successfully", Text(""))>>,
              exit |-> -1]
        ELSE [events |-> r.events \o <<Ev("print", "Error:", r.ret.val)>>, exit |-> -1]

\* main: the menu printed at the top of every iteration of the loop
menu_shown == <<Ev("print", "TRADING BOT - INTERACTIVE MODE", Text(""))>>

(* ------------------------------- state -------------------------------- *)
\* pc: "start" (cli main not yet run), "flags" (bot constructed, flag mode),
\* "menu" (top of the interactive loop), "lib_start" / "lib" (BasicBot used
\* as a library, as src/example.py does), "exited" (cli main has ended),
\* "crashed" (the library's script ended on an uncaught exception).
\* exitCode: -1 while the process runs.
Init ==
    /\ pc \in {"start", "lib_start"}
    /\ args = NoArgs
    /\ testnet_given = FALSE
    /\ bot = NoBot
    /\ typed = NoTyped
    /\ initEvents = <<>>
    /\ opEvents = <<>>
    /\ exitCode = -1
    /\ nOps = 0

\* main up to the construction of the bot (parse_args, BasicBot(...)), and
\* main's except Exception when the construction raises.  testnet_given
\* keeps what args does not: whether --testnet was on the command line.
Startup ==
    /\ pc = "start"
    /\ \E argv \in ArgvSet, c \in Constructions :
          LET p == parse_args(argv)
              b == BasicBot("key", "secret", use_testnet(p.val), c.created, c.outcome)
          IN  /\ testnet_given' = argv.testnet
              /\ IF ~p.ok
                 THEN /\ pc' = "exited"
                      /\ exitCode' = 2
                      /\ args' = NoArgs
                      /\ bot' = NoBot
                      /\ initEvents' = <<Ev("print", "usage error", Text(""))>>
                 ELSE IF ~b.ret.ok
                 THEN /\ pc' = "exited"
                      /\ exitCode' = 1
                      /\ args' = p.val
                      /\ bot' = NoBot
                      /\ initEvents' = b.events \o <<Ev("print", "Error:", b.ret.val)>>
                 ELSE /\ pc' = IF Selected(p.val) = "interactive" THEN "menu" ELSE "flags"
                      /\ exitCode' = -1
                      /\ args' = p.val
                      /\ bot' = b.bot
                      /\ initEvents' = b.events
    /\ UNCHANGED <<typed, opEvents, nOps>>

\* The end of a flag-mode run: the branch's events and exit status.
FlagEnds(d) ==
    /\ pc' = "exited"
    /\ exitCode' = d.exit
    /\ opEvents' = d.events
    /\ UNCHANGED <<args, testnet_given, bot, typed, initEvents, nOps>>

FlagBalance ==
    /\ pc = "flags" /\ Selected(args) = "balance"
    /\ \E outcome \in CliOutcomes(AccountInfo) : FlagEnds(flag_balance(args, outcome))

FlagOrderStatus ==
    /\ pc = "flags" /\ Selected(args) = "order_status"
    /\ \E outcome \in CliOutcomes(OrderResponse) : FlagEnds(flag_order_status(args, outcome))

FlagCancelOrder ==
    /\ pc = "flags" /\ Selected(args) = "cancel_order"
    /\ \E outcome \in CliOutcomes(OrderResponse) : FlagEnds(flag_cancel_order(args, outcome))

FlagPlaceOrder ==
    /\ pc = "flags" /\ Selected(args) = "order"
    /\ \E outcome \in CliOutcomes(OrderResponse) : FlagEnds(flag_place_order(args, outcome))

FlagNone ==
    /\ pc = "flags" /\ Selected(args) = "none"
    /\ FlagEnds(flag_none(args))

\* One iteration of the menu loop that returns to the menu.
MenuContinues(t, events) ==
    /\ typed' = t
    /\ opEvents' = menu_shown \o events
    /\ nOps' = nOps + 1
    /\ UNCHANGED <<pc, args, testnet_given, bot, initEvents, exitCode>>

\* One iteration of the menu loop that ends the process.
MenuExits(t, events, status) ==
    /\ typed' = t
    /\ opEvents' = menu_shown \o events
    /\ nOps' = nOps + 1
    /\ pc' = "exited"
    /\ exitCode' = status
    /\ UNCHANGED <<args, testnet_given, bot, initEvents>>

MenuPlaceOrder ==
    /\ pc = "menu" /\ nOps < MaxOps
    /\ \E inp \in PlaceInputs, outcome \in CliOutcomes(OrderResponse) :
          LET r == place_order_interactive(inp, outcome)
          IN  MenuContinues([r.typed EXCEPT !.menu = <<"1">>], r.events)

MenuBalance ==
    /\ pc = "menu" /\ nOps < MaxOps
    /\ \E outcome \in CliOutcomes(AccountInfo) :
          MenuContinues([NoTyped EXCEPT !.menu = <<"2">>], print_account_info(outcome))

MenuOrderStatus ==
    /\ pc = "menu" /\ nOps < MaxOps
    /\ \E symbol \in TypedSymbols, order_id \in TypedOrderIds,
          outcome \in CliOutcomes(OrderResponse) :
          LET r == menu_order_status(symbol, order_id, outcome)
              t == [NoTyped EXCEPT !.menu = <<"3">>, !.symbol = symbol, !.order_id = order_id]
          IN  IF r.exit = -1 THEN MenuContinues(t, r.events)
              ELSE MenuExits(t, r.events, r.exit)

MenuCancelOrder ==
    /\ pc = "menu" /\ nOps < MaxOps
    /\ \E symbol \in TypedSymbols, order_id \in TypedOrderIds,
          outcome \in CliOutcomes(OrderResponse) :
          LET r == menu_cancel_order(symbol, order_id, outcome)
              t == [NoTyped EXCEPT !.menu = <<"4">>, !.symbol = symbol, !.order_id = order_id]
          IN  IF r.exit = -1 THEN MenuContinues(t, r.events)
              ELSE MenuExits(t, r.events, r.exit)

MenuExit ==
    /\ pc = "menu" /\ nOps < MaxOps
    /\ MenuExits([NoTyped EXCEPT !.menu = <<"5">>],
                 <<Ev("print", "Exiting...", Text(""))>>, 0)

MenuInvalid ==
    /\ pc = "menu" /\ nOps < MaxOps
    /\ \E choice \in {<<"9">>, <<>>} :
          MenuContinues([NoTyped EXCEPT !.menu = choice],
                        <<Ev("print", "Invalid option", Text(""))>>)

(* ---------------------- BasicBot used as a library -------------------- *)
LibSymbols == {T_BTC, <<"E","T","H">>}
LibSides == {<<"b","u","y">>, BUY, SELL}
LibQuantities == {Fin(1), Fin(-1)}
LibPrices == {Fin(2)}
LibStopPrices == {Fin(3)}
LibOrderIds == {Fin(7)}

\* bot = BasicBot(API_KEY, API_SECRET, testnet=...); an exception ends the script
LibConstruct ==
    /\ pc = "lib_start"
    /\ \E testnet \in BOOLEAN, c \in Constructions :
          LET b == BasicBot("key", "secret", testnet, c.created, c.outcome)
          IN  /\ pc' = IF b.ret.ok THEN "lib" ELSE "crashed"
              /\ exitCode' = IF b.ret.ok THEN -1 ELSE 1
              /\ bot' = b.bot
              /\ initEvents' = b.events
    /\ UNCHANGED <<args, testnet_given, typed, opEvents, nOps>>

\* One call of a BasicBot method by the library's user.
LibCalled(r) ==
    /\ opEvents' = r.events
    /\ nOps' = nOps + 1
    /\ UNCHANGED <<pc, args, testnet_given, bot, typed, initEvents, exitCode>>

LibPlaceMarketOrder ==
    /\ pc = "lib" /\ nOps < MaxOps
    /\ \E symbol \in LibSymbols, side \in LibSides, quantity \in LibQuantities,
          outcome \in Outcomes(OrderResponse) :
          LibCalled(place_market_order(symbol, side, quantity, outcome))

LibPlaceLimitOrder ==
    /\ pc = "lib" /\ nOps < MaxOps
    /\ \E symbol \in LibSymbols, side \in LibSides, quantity \in LibQuantities,
          price \in LibPrices, outcome \in Outcomes(OrderResponse) :
          LibCalled(place_limit_order(symbol, side, quantity, price, outcome))

LibPlaceStopLimitOrder ==
    /\ pc = "lib" /\ nOps < MaxOps
    /\ \E symbol \in LibSymbols, side \in LibSides, quantity \in LibQuantities,
          price \in LibPrices, stop_price \in LibStopPrices,
          outcome \in Outcomes(OrderResponse) :
          LibCalled(place_stop_limit_order(symbol, side, quantity, price, stop_price, outcome))

LibGetOrderStatus ==
    /\ pc = "lib" /\ nOps < MaxOps
    /\ \E symbol \in LibSymbols, order_id \in LibOrderIds, outcome \in Outcomes(OrderResponse) :
          LibCalled(get_order_status(symbol, order_id, outcome))

LibCancelOrder ==
    /\ pc = "lib" /\ nOps < MaxOps
    /\ \E symbol \in LibSymbols, order_id \in LibOrderIds, outcome \in Outcomes(OrderResponse) :
          LibCalled(cancel_order(symbol, order_id, outcome))

LibGetAccountBalance ==
    /\ pc = "lib" /\ nOps < MaxOps
    /\ \E outcome \in Outcomes(AccountInfo) : LibCalled(get_account_balance(outcome))

LibGetSymbolInfo ==
    /\ pc = "lib" /\ nOps < MaxOps
    /\ \E symbol \in LibSymbols, outcome \in Outcomes(ExchangeInfo) :
          LibCalled(get_symbol_info(symbol, outcome))

\* The validators of cli.py called on their own, as place_order_interactive
\* calls them: the texts a user can type, with different cases and blanks,
\* not-a-number and infinity among them.
SideTexts ==
    {<<"b","u","y">>, BUY, <<"B","u","y">>, <<"s","e","l","l">>, SELL,
     <<"s","E","l","L">>, <<"h","o","l","d">>, <<>>, <<" ","b","u","y">>,
     <<"B","U","Y","S">>}

NumberTexts ==
    {<<"1">>, <<" ","2"," ">>, <<"+","3">>, <<"1","0">>, <<"0">>, <<"-","1">>,
     <<"a","b","c">>, <<>>, <<"n","a","n">>, <<"N","a","N">>, <<"i","n","f">>,
     <<"-","i","n","f">>, <<"I","n","f","i","n","i","t","y">>}

FieldNames == {"Quantity", "Price", "Stop price"}

\* What a call of a validator is seen to do: "check" (it is entered with
\* these arguments), then "accept" (the value it returns) or "reject" (the
\* ValueError it raises).
Validated(name, arg, r) ==
    << Ev("check", name, arg),
       Ev(IF r.ok THEN "accept" ELSE "reject", name, [val |-> r.val]) >>

ValidateSide ==
    /\ pc = "lib" /\ nOps < MaxOps
    /\ \E side \in SideTexts :
          LibCalled([events |-> Validated("validate_side", [side |-> side],
                                          validate_side(side))])

ValidatePositiveFloat ==
    /\ pc = "lib" /\ nOps < MaxOps
    /\ \E value \in NumberTexts, name \in FieldNames :
          LibCalled([events |-> Validated("validate_positive_float",
                                          [value |-> value, name |-> name],
                                          validate_positive_float(value, name))])

Next ==
    \/ Startup
    \/ FlagBalance \/ FlagOrderStatus \/ FlagCancelOrder \/ FlagPlaceOrder \/ FlagNone
    \/ MenuPlaceOrder \/ MenuBalance \/ MenuOrderStatus \/ MenuCancelOrder
    \/ MenuExit \/ MenuInvalid
    \/ LibConstruct
    \/ LibPlaceMarketOrder \/ LibPlaceLimitOrder \/ LibPlaceStopLimitOrder
    \/ LibGetOrderStatus \/ LibCancelOrder \/ LibGetAccountBalance \/ LibGetSymbolInfo
    \/ ValidateSide \/ ValidatePositiveFloat

Spec == Init /\ [][Next]_vars

(* ------------------------- reading the events ------------------------- *)
\* Calls of methods of the exchange client, order placements among them,
\* and calls of BasicBot's methods (the dispatcher), in program order.
ClientCalls(seq) == Select(seq, "client")
CreateOrders(seq) == SelectNamed(seq, "client", "futures_create_order")
DispatcherCalls(seq) == Select(seq, "call")
Printed(seq) == Select(seq, "print")

\* Positions of the events of kind t.
At(seq, t) == {i \in DOMAIN seq : seq[i].t = t}

\* An error message was printed: every message of cli.py that reports a
\* failure starts with "Error", the one of the final else with "No operation".
ErrorPrints ==
    {"Error:", "Error placing order:", "Error getting account balance:",
     "Error: Symbol cannot be empty", "Error: Invalid order type selection",
     "Error: --symbol and --order-id are required for --order-status",
     "Error: --symbol and --order-id are required for --cancel-order",
     "Error: --symbol, --side, and --quantity are required for placing orders",
     "Error: --price is required for limit orders",
     "Error: --price and --stop-price are required for stop-limit orders",
     "No operation specified", "usage error"}
ErrorPrinted(seq) == \E i \in DOMAIN seq : seq[i].t = "print" /\ seq[i].name \in ErrorPrints

\* The process is in flag mode / interactive mode with its bot constructed.
FlagRun == pc \in {"flags", "exited"} /\ bot # NoBot /\ ~args.interactive
FlagRunEnded == FlagRun /\ pc = "exited"
MenuRun == bot # NoBot /\ args.interactive
MenuOpDone == MenuRun /\ typed.menu # NoStr

(* ------------------------------- C1 ----------------------------------- *)
\* The order of a flag-mode run lacks its price (limit, stop-limit) or its
\* stop price (stop-limit); symbol, side and quantity are given.
FlagPriceMissing ==
    /\ FlagRunEnded /\ Selected(args) = "order"
    /\ TruthyStr(args.symbol) /\ TruthyStr(args.side) /\ TruthyNum(args.quantity)
    /\ \/ args.order_type \in {"limit", "stop-limit"} /\ args.price = None
       \/ args.order_type = "stop-limit" /\ args.stop_price = None

\* The price prompt (LIMIT, STOP-LIMIT) or the stop price prompt (STOP-LIMIT)
\* of place_order_interactive was answered with nothing.
MenuPriceMissing ==
    /\ MenuOpDone /\ typed.menu = <<"1">>
    /\ \/ typed.price # NoStr /\ Strip(typed.price) = <<>>
       \/ typed.stop_price # NoStr /\ Strip(typed.stop_price) = <<>>

PriceMissing == FlagPriceMissing \/ MenuPriceMissing

\* The operation was abandoned with a message and without any call of the
\* dispatcher.
Rejected == ErrorPrinted(opEvents) /\ DispatcherCalls(opEvents) = <<>>

\* C1 as claimed: an order without its price or stop price is rejected and,
\* up to the rejection, no method of the exchange client has been called in
\* the run, the liveness call of the construction included.
C1_NoClientCallAtAll ==
    PriceMissing => Rejected /\ ClientCalls(initEvents \o opEvents) = <<>>

\* C1 amended: an order without its price or stop price is rejected, in flag
\* mode and in interactive mode, without any call of the exchange client
\* from the start of the order operation to its rejection; the construction
\* of the bot, which precedes it, has made exactly one call, the liveness one.
C1_RejectedBeforeOrderCall ==
    PriceMissing =>
        /\ Rejected
        /\ ClientCalls(opEvents) = <<>>
        /\ Len(ClientCalls(initEvents)) = 1
        /\ ClientCalls(initEvents)[1].arg = Text("liveness")

\* A stop-limit order typed at the menu, its price given and its stop price
\* left empty, was rejected.
C1_Witness ==
    /\ MenuPriceMissing /\ typed.order_type = <<"3">>
    /\ Strip(typed.price) # <<>> /\ Strip(typed.stop_price) = <<>>
    /\ Rejected

(* ------------------------------- C2 ----------------------------------- *)
\* A token that is no number, or a number that is not positive.
BadPositive(tok) == ~ParseFloat(Strip(tok)).ok \/ ~GtZero(ParseFloat(Strip(tok)).val)

\* A value typed at a prompt that was reached is invalid: an empty symbol,
\* an order type selection outside 1-3, a side other than BUY / SELL, a
\* quantity, price or stop price that is no positive number, an order id
\* that is no integer.
InvalidTyped ==
    \/ typed.symbol # NoStr /\ Strip(typed.symbol) = <<>>
    \/ typed.order_type # NoStr /\ Strip(typed.order_type) \notin {<<"1">>, <<"2">>, <<"3">>}
    \/ typed.side # NoStr /\ Upper(Strip(typed.side)) \notin {BUY, SELL}
    \/ typed.quantity # NoStr /\ BadPositive(typed.quantity)
    \/ typed.price # NoStr /\ BadPositive(typed.price)
    \/ typed.stop_price # NoStr /\ BadPositive(typed.stop_price)
    \/ typed.order_id # NoStr /\ ~ParseInt(Strip(typed.order_id)).ok

\* C2: in interactive mode, after a menu option (1-4) at one of whose
\* prompts an invalid value was typed, the input has been reported, no
\* dispatcher call was made, and the process is back at the menu, running.
C2_InvalidInputBackToMenu ==
    (args.interactive /\ typed.menu \in {<<"1">>, <<"2">>, <<"3">>, <<"4">>} /\ InvalidTyped)
        => /\ ErrorPrinted(opEvents)
           /\ DispatcherCalls(opEvents) = <<>>
           /\ pc = "menu" /\ exitCode = -1

(* ------------------------------- C3 ----------------------------------- *)
\* The exchange client raised during a dispatcher operation of a cli run.
ClientRaisedInOp == \E i \in DOMAIN opEvents : opEvents[i].t = "error"

\* The error the dispatcher re-raised was printed.
RaisedErrorPrinted ==
    \E i, j \in DOMAIN opEvents :
        /\ i < j
        /\ opEvents[i].t = "raise"
        /\ opEvents[j].t = "print" /\ opEvents[j].arg = opEvents[i].arg

\* C3: when the exchange client raises during a dispatcher operation, the
\* dispatcher re-raises it and the cli prints it; a flag-mode run (--balance,
\* --order-status, --cancel-order, --order-type) then exits with a non-zero
\* status, an interactive run is back at the menu.
C3_ClientErrorReported ==
    ((FlagRunEnded \/ MenuOpDone) /\ ClientRaisedInOp)
        => /\ RaisedErrorPrinted
           /\ FlagRunEnded => exitCode \notin {-1, 0}
           /\ MenuOpDone => pc = "menu" /\ exitCode = -1

(* ------------------------------- C4 ----------------------------------- *)
\* An order payload as the validator leaves it: side BUY or SELL, positive
\* quantity, positive price and stop price where present.
ValidatedPayload(p) ==
    /\ p.side \in {BUY, SELL}
    /\ GtZero(p.quantity)
    /\ "price" \in DOMAIN p => GtZero(p.price)
    /\ "stopPrice" \in DOMAIN p => GtZero(p.stopPrice)

\* C4: every payload that a cli run, in flag mode or in interactive mode,
\* passes to futures_create_order is validated.
C4_CliPayloadsValidated ==
    (FlagRun \/ MenuRun) =>
        \A i \in DOMAIN opEvents :
            (opEvents[i].t = "client" /\ opEvents[i].name = "futures_create_order")
                => ValidatedPayload(opEvents[i].arg)

(* ------------------------------- C5 ----------------------------------- *)
\* The exchange client raised e in answer to futures_create_order.
OrderErrors == SelectNamed(opEvents, "error", "futures_create_order")

\* C5: when the exchange client raises in answer to futures_create_order
\* (BinanceAPIException, BinanceRequestException or another exception),
\* the dispatcher has logged one error, that one; it has raised that same
\* error to its caller; and futures_create_order was called once.
C5_OrderErrorLoggedOnceAndReraised ==
    OrderErrors # <<>> =>
        LET e == OrderErrors[1].arg
        IN  /\ Len(OrderErrors) = 1
            /\ SelectNamed(opEvents, "log", "error") = <<Ev("log", "error", e)>>
            /\ Len(Select(opEvents, "raise")) = 1
            /\ Select(opEvents, "raise")[1].arg = e
            /\ Select(opEvents, "raise")[1].name \in
                   {"place_market_order", "place_limit_order", "place_stop_limit_order"}
            /\ Len(CreateOrders(opEvents)) = 1

\* place_limit_order, called directly, met a BinanceRequestException.
C5_Witness ==
    /\ pc = "lib"
    /\ OrderErrors # <<>>
    /\ OrderErrors[1].arg.cls = "BinanceRequestException"
    /\ \E i \in DOMAIN opEvents : opEvents[i] = Ev("raise", "place_limit_order", OrderErrors[1].arg)

(* ------------------------------- C6 ----------------------------------- *)
\* C6: around every call that a dispatcher operation makes to the exchange
\* client there is a log line before the call and, after it, a log line
\* with the response or the error.
C6_EveryCallLogged ==
    \A i \in At(opEvents, "client") :
        /\ \E j \in At(opEvents, "log") : j < i
        /\ \E j \in At(opEvents, "log") : j > i /\ opEvents[j].name \in {"response", "error"}

(* ------------------------------- C7 ----------------------------------- *)
\* The construction of the bot has created its exchange client.
ClientCreated == \E i \in DOMAIN initEvents : initEvents[i] = Ev("answer", "Client", Text("client"))

\* The errors the liveness call has met.
LivenessErrors == Select(initEvents, "error")

\* C7: once the exchange client is created, the construction has made one
\* call of it, the account summary of the environment (futures_account on
\* the testnet, get_account on the mainnet), after the creation; if that
\* call raised, it was not repeated, the constructor raised the same error,
\* there is no bot, no dispatcher operation is ever executed and the
\* process has ended with a non-zero status.
C7_OneLivenessCheck ==
    ClientCreated =>
        /\ Len(ClientCalls(initEvents)) = 1
        /\ ClientCalls(initEvents)[1].name =
               (IF initEvents[1].arg.testnet THEN "futures_account" ELSE "get_account")
        /\ \A i \in At(initEvents, "client") : \A j \in At(initEvents, "new") : j < i
        /\ LivenessErrors # <<>> =>
               /\ Len(LivenessErrors) = 1
               /\ Select(initEvents, "raise") =
                      <<Ev("raise", "BasicBot", LivenessErrors[1].arg)>>
               /\ bot = NoBot
               /\ opEvents = <<>> /\ nOps = 0
               /\ pc \in {"exited", "crashed"}
               /\ exitCode \notin {-1, 0}

\* A cli run on the mainnet whose liveness call raised has ended.
C7_Witness ==
    /\ ClientCreated /\ LivenessErrors # <<>>
    /\ pc = "exited" /\ args.mainnet
    /\ ClientCalls(initEvents)[1].name = "get_account"

(* ------------------------------- C8 ----------------------------------- *)
\* The order type a BasicBot method is for.
TypeOf(method) ==
    IF method = "place_market_order" THEN "MARKET"
    ELSE IF method = "place_limit_order" THEN "LIMIT"
    ELSE "STOP"

\* C8: every payload passed to futures_create_order has the type of the
\* method that sends it, carries a price exactly when that type is LIMIT or
\* STOP and a stopPrice exactly when it is STOP; a flag run with
\* --order-type market sends a MARKET payload, whatever --price and
\* --stop-price are.
C8_PriceFieldsByType ==
    /\ \A i \in DOMAIN opEvents :
        (opEvents[i].t = "client" /\ opEvents[i].name = "futures_create_order") =>
            LET p == opEvents[i].arg
            IN  /\ p.type \in {"MARKET", "LIMIT", "STOP"}
                /\ p.type = TypeOf(DispatcherCalls(opEvents)[1].name)
                /\ ("price" \in DOMAIN p) <=> (p.type \in {"LIMIT", "STOP"})
                /\ ("stopPrice" \in DOMAIN p) <=> (p.type = "STOP")
    /\ (FlagRunEnded /\ Selected(args) = "order" /\ CreateOrders(opEvents) # <<>>) =>
           CreateOrders(opEvents)[1].arg.type =
               (IF args.order_type = "market" THEN "MARKET"
                ELSE IF args.order_type = "limit" THEN "LIMIT" ELSE "STOP")

\* A flag run with --order-type market, --price and --stop-price has sent
\* its order.
C8_Witness ==
    /\ FlagRunEnded /\ Selected(args) = "order" /\ args.order_type = "market"
    /\ args.price # None /\ args.stop_price # None
    /\ CreateOrders(opEvents) # <<>>

(* ------------------------------- C9 ----------------------------------- *)
\* The command line that gives the values typed at the prompts as flags.
FlagsOf(t) ==
    [interactive |-> FALSE, balance |-> FALSE, order_status |-> FALSE,
     cancel_order |-> FALSE,
     order_type |-> (IF Strip(t.order_type) = <<"1">> THEN "market"
                     ELSE IF Strip(t.order_type) = <<"2">> THEN "limit" ELSE "stop-limit"),
     symbol |-> t.symbol, side |-> t.side, quantity |-> t.quantity,
     price |-> t.price, stop_price |-> t.stop_price, order_id |-> NoStr,
     testnet |-> FALSE, mainnet |-> FALSE]

\* C9: when place_order_interactive has sent an order and the flag mode,
\* given the same values, sends one too, the two payloads are the same.
C9_SamePayloadBothPaths ==
    (MenuOpDone /\ typed.menu = <<"1">> /\ CreateOrders(opEvents) # <<>>) =>
        LET p == parse_args(FlagsOf(typed))
            f == flag_place_order(p.val, Ok(OrderResponse))
        IN  (p.ok /\ CreateOrders(f.events) # <<>>) =>
                CreateOrders(f.events)[1].arg = CreateOrders(opEvents)[1].arg

(* ------------------------------- C10 ---------------------------------- *)
\* The operation that the flags select lacks a flag it requires.
LacksRequired(a) ==
    \/ Selected(a) \in {"order_status", "cancel_order"}
         /\ (a.symbol = NoStr \/ a.order_id = None)
    \/ Selected(a) = "order"
         /\ \/ a.symbol = NoStr \/ a.side = NoStr \/ a.quantity = None
            \/ a.order_type \in {"limit", "stop-limit"} /\ a.price = None
            \/ a.order_type = "stop-limit" /\ a.stop_price = None
    \/ Selected(a) = "none"

ValidatorRan(name) ==
    /\ Len(opEvents) = 2
    /\ opEvents[1].t = "check" /\ opEvents[1].name = name

Given == opEvents[1].arg
Accepted == opEvents[2].t = "accept"
Refused == opEvents[2].t = "reject"
Verdict == opEvents[2].arg.val

\* The text is a number that is finite and strictly greater than zero.
FinitePositive(value) ==
    /\ ParseFloat(value).ok
    /\ ParseFloat(value).val.k = "fin"
    /\ ParseFloat(value).val.n > 0

\* C11: validate_positive_float(value, name) succeeds exactly when value
\* parses as a finite number strictly greater than zero, and then returns
\* that number; for every other input (not a number, zero, negative,
\* infinite, NaN) it fails with an error whose message contains the field
\* name.
C11_FinitePositiveOrNamedError ==
    ValidatorRan("validate_positive_float") =>
        IF FinitePositive(Given.value)
        THEN Accepted /\ Verdict = ParseFloat(Given.value).val
        ELSE Refused /\ Verdict.cls = "ValueError" /\ Verdict.field = Given.name

\* The text is BUY or SELL when the case of its letters is ignored.
IsBuy(side) == Lower(side) = <<"b","u","y">>
IsSell(side) == Lower(side) = <<"s","e","l","l">>

\* C12: validate_side fails for every input that is not BUY or SELL under
\* case-insensitive comparison, and for every case variant of BUY or SELL it
\* returns the upper-cased canonical form, "BUY" or "SELL".
C12_SideCanonicalOrRefused ==
    ValidatorRan("validate_side") =>
        /\ IsBuy(Given.side) => Accepted /\ Verdict = BUY
        /\ IsSell(Given.side) => Accepted /\ Verdict = SELL
        /\ ~IsBuy(Given.side) /\ ~IsSell(Given.side) =>
              Refused /\ Verdict.cls = "ValueError"

\* A mixed-case variant was given and the canonical form came back.
C12_Witness ==
    /\ ValidatorRan("validate_side")
    /\ Given.side = <<"s","E","l","L">>
    /\ Accepted /\ Verdict = SELL

(* --------------------------- market orders ---------------------------- *)
MarketCalls == SelectNamed(opEvents, "call", "place_market_order")
MarketReturns == SelectNamed(opEvents, "return", "place_market_order")
OrderAnswers == SelectNamed(opEvents, "answer", "futures_create_order")

\* The text has no lower-case letter.
AllUpper(s) == \A i \in DOMAIN s : s[i] \notin DOMAIN ToUpper

\* C13: place_market_order(symbol, side, quantity) sends exactly one
\* futures_create_order request, whose payload has the given symbol and
\* quantity, the given side in upper case and the type "MARKET" and nothing
\* else; when the exchange answers, the method returns that answer unchanged.
C13_MarketOrderSentOnceAndReturned ==
    MarketCalls # <<>> =>
        LET given == MarketCalls[1].arg
            sent == CreateOrders(opEvents)
        IN  /\ Len(ClientCalls(opEvents)) = 1
            /\ Len(sent) = 1
            /\ DOMAIN sent[1].arg = {"symbol", "side", "type", "quantity"}
            /\ sent[1].arg.symbol = given.symbol
            /\ sent[1].arg.quantity = given.quantity
            /\ sent[1].arg.type = "MARKET"
            /\ Lower(sent[1].arg.side) = Lower(given.side)
            /\ AllUpper(sent[1].arg.side)
            /\ OrderAnswers # <<>> =>
                  /\ Len(MarketReturns) = 1
                  /\ MarketReturns[1].arg = OrderAnswers[1].arg

\* A market order with a lower-case side was answered by the exchange.
C13_Witness ==
    /\ pc = "lib"
    /\ MarketCalls # <<>>
    /\ MarketCalls[1].arg.side = <<"b","u","y">>
    /\ OrderAnswers # <<>>
    /\ MarketReturns # <<>>

(* ------------------------ one operation per run ----------------------- *)
\* The BasicBot methods and the client methods a run has called.
MethodsCalled == {DispatcherCalls(opEvents)[i].name : i \in DOMAIN DispatcherCalls(opEvents)}
ClientMethodsCalled == {ClientCalls(opEvents)[i].name : i \in DOMAIN ClientCalls(opEvents)}

PlaceMethods == {"place_market_order", "place_limit_order", "place_stop_limit_order"}

\* C14: a run without --interactive calls at most one BasicBot method, the
\* one of the first flag given in the order --balance, --order-status,
\* --cancel-order, --order-type; the flags after it place and cancel nothing.
\* With --interactive the run is the menu's, whatever other flags are given.
C14_OneOperationByPrecedence ==
    /\ FlagRunEnded =>
          /\ Len(DispatcherCalls(opEvents)) <= 1
          /\ Len(ClientCalls(opEvents)) <= 1
          /\ args.balance => MethodsCalled \subseteq {"get_account_balance"}
          /\ ~args.balance /\ args.order_status =>
                MethodsCalled \subseteq {"get_order_status"}
          /\ ~args.balance /\ ~args.order_status /\ args.cancel_order =>
                MethodsCalled \subseteq {"cancel_order"}
          /\ ~args.balance /\ ~args.order_status /\ ~args.cancel_order =>
                MethodsCalled \subseteq PlaceMethods
          /\ \/ args.balance \/ args.order_status
             \/ ~args.cancel_order /\ args.order_type = "none"
             => ClientMethodsCalled \cap {"futures_create_order", "futures_cancel_order"} = {}
          /\ args.cancel_order => "futures_create_order" \notin ClientMethodsCalled
    /\ MenuRun =>
          /\ pc # "flags"
          /\ typed.menu = NoStr => opEvents = <<>>

\* Every operation flag was given with all its fields, and the run was the
\* balance query alone.
C14_Witness ==
    /\ FlagRunEnded
    /\ args.balance /\ args.order_status /\ args.cancel_order
    /\ args.order_type = "market"
    /\ args.symbol # NoStr /\ args.side # NoStr
    /\ args.quantity = Fin(1) /\ args.order_id # None
    /\ MethodsCalled = {"get_account_balance"}
    /\ ClientMethodsCalled = {"futures_account"}

(* ---------------------------- the environment ------------------------- *)
\* A run of the command line that has got as far as constructing BasicBot.
CliConstructing ==
    /\ pc \in {"menu", "flags", "exited"}
    /\ initEvents # <<>> /\ initEvents[1].t = "new"

\* The environment is the testnet unless --mainnet is given, with or
\* without --testnet: it is the one the client is constructed for and the
\* one the bot keeps, with the credentials and the client handle.
EnvironmentChosen ==
    CliConstructing =>
        /\ initEvents[1].arg.testnet = ~args.mainnet
        /\ bot # NoBot =>
              bot = [api_key |-> "key", api_secret |-> "secret",
                     testnet |-> ~args.mainnet, client |-> "client"]

\* No step after the construction changes the bot.
BotKept == bot # NoBot => bot' = bot

\* C15: the environment of a run is the sandbox (testnet) unless --mainnet
\* is given, and --mainnet selects production even when --testnet is given
\* too; once BasicBot is constructed, no operation changes its environment,
\* its credentials or its client handle.
C15_EnvironmentChosenOnceAndKept ==
    []EnvironmentChosen /\ [][BotKept]_vars

\* --testnet and --mainnet were both given, the bot was constructed for
\* production and an operation has run on it.
C15_Witness ==
    /\ pc = "exited"
    /\ testnet_given /\ args.mainnet
    /\ bot # NoBot /\ ~bot.testnet
    /\ ClientMethodsCalled # {}

====
